---- MODULE Spec2Model ----
(***************************************************************************)
(* Model of bot.py: the Battlefield tracker bot.                            *)
(*                                                                         *)
(* The bot runs on one asyncio event loop.  A handler runs without         *)
(* interruption from one await to the next, so every action below is the   *)
(* code between two suspension points.  check_players (the poll pass)      *)
(* suspends at the per-player fetch (line 154) and at channel.send (line   *)
(* 184); the command handlers mutate roster, store and files without any   *)
(* await in between and suspend only at their final ctx.send.              *)
(*                                                                         *)
(* Message wording (random.choice over the templates) is abstracted to the *)
(* template list that was chosen from and the kill number that is          *)
(* formatted into it.  channel.send and the file writes are assumed to     *)
(* succeed.  The clock is read in units of the poll interval: it advances  *)
(* while the loop sleeps between two passes, and the awaits of one pass    *)
(* take less than a unit.                                                  *)
(***************************************************************************)
EXTENDS Integers, Sequences, FiniteSets, TLC

\* ---- bounds of the model ----
MaxTime == 1        \* the wall clock runs 0..MaxTime
MaxSeconds == 1     \* the API reports secondsPlayed in 0..MaxSeconds
MaxKills == 1       \* the API reports kills in 0..MaxKills
MaxChecks == 1      \* check_player commands suspended at their fetch

\* ---- program constants ----
\* config["inactivity_threshold_minutes"] * 60 and
\* config["check_interval_minutes"] * 60, in clock units.
INACTIVITY_THRESHOLD == 1
CHECK_INTERVAL == 1

Users == {"u1", "u2"}

\* Python's None in the numeric fields of a tracking record.
None == -1

NoPlayer == "none"

Max(a, b) == IF a >= b THEN a ELSE b

Range(s) == {s[i] : i \in 1..Len(s)}

\* list.remove(x): drops the first occurrence of x.
RECURSIVE ListRemove(_, _)
ListRemove(s, x) ==
    IF s = <<>> THEN <<>>
    ELSE IF Head(s) = x THEN Tail(s)
    ELSE <<Head(s)>> \o ListRemove(Tail(s), x)

\* The record add_player and the startup loop create.
NullRecord == [seconds_played |-> None, kills |-> None, last_check |-> 0, playing |-> FALSE]

\* dict.pop(key, None)
DictPop(d, k) == [x \in (DOMAIN d) \ {k} |-> d[x]]

\* d[k] = v
DictSet(d, k, v) == [x \in (DOMAIN d) \cup {k} |-> IF x = k THEN v ELSE d[x]]

\* dict.setdefault over the roster at startup.
SetDefaults(d, roster) ==
    [x \in (DOMAIN d) \cup Range(roster) |-> IF x \in DOMAIN d THEN d[x] ELSE NullRecord]

Snapshots == [secondsPlayed : 0..MaxSeconds, kills : 0..MaxKills]

NoStats == [secondsPlayed |-> None, kills |-> None]

NoMessage == [kind |-> "none", player |-> NoPlayer, kills |-> None]

\* The ways fetch_stats returns None: status != 200 (line 123), an empty
\* body (line 130), a body without secondsPlayed or kills (line 138).
FetchFailures == {"http_status", "empty", "malformed"}

VARIABLES
    players,        \* config["players"], the in-memory roster
    config_file,    \* roster as last written to config.json
    player_state,   \* the in-memory tracking store
    state_file,     \* store as last written to state.json
    now,            \* time.time()
    running,        \* the tasks.loop task of check_players is alive
    pc,             \* check_players: "idle", "fetch" (line 154), "send" (line 184);
                    \* "dead" when the process failed to start
    it,             \* list iterator of line 153: elements consumed so far
    player,         \* loop variable of line 153
    stats,          \* snapshot held across the send
    tnow,           \* `now` of line 159 held across the send
    state_live,     \* the dict bound to `state` is still player_state[player]
    message,        \* message handed to channel.send
    sent,           \* messages delivered to the channel in this pass, per player
    saves,          \* save_state calls made by this pass
    next_run,       \* tasks.loop: earliest start of the next pass
    checks,         \* check_player handlers suspended at line 275
    last            \* what the last step did, and on which fetch result

vars == <<players, config_file, player_state, state_file, now, running, pc, it,
          player, stats, tnow, state_live, message, sent, saves, next_run, checks,
          last>>

Did(op, st, u) == [op |-> op, stats |-> st, user |-> u]

NoDups(s) == \A i, j \in 1..Len(s) : i # j => s[i] # s[j]

Rosters == {s \in UNION {[1..n -> Users] : n \in 0..Cardinality(Users)} : NoDups(s)}

\* Records an earlier run of the bot may have left in state.json.
PersistedRecords ==
    {[seconds_played |-> 0, kills |-> 0, last_check |-> 0, playing |-> b] : b \in BOOLEAN}

\* Module load, lines 46-115: config.json holds a roster; state.json is
\* absent or holds records of roster players from an earlier run.
Init ==
    /\ players \in Rosters
    /\ config_file = players
    /\ \E loaded \in UNION {[S -> PersistedRecords] : S \in SUBSET Range(players)} :
          player_state = SetDefaults(loaded, players)
    /\ state_file = player_state
    /\ now = 0
    /\ running = TRUE
    /\ pc = "idle"
    /\ it = 0
    /\ player = NoPlayer
    /\ stats = NoStats
    /\ tnow = 0
    /\ state_live = FALSE
    /\ message = NoMessage
    /\ sent = [u \in Users |-> 0]
    /\ saves = 0
    /\ next_run = 0
    /\ checks = 0
    /\ last = Did("init", NoStats, NoPlayer)

Tick ==
    /\ UNCHANGED checks
    /\ now < MaxTime
    /\ pc = "idle"
    /\ now' = now + 1
    /\ last' = Did("tick", NoStats, NoPlayer)
    /\ UNCHANGED <<players, config_file, player_state, state_file, running, pc, it,
                   player, stats, tnow, state_live, message, sent, saves, next_run>>

ResetLocals ==
    /\ it' = 0
    /\ player' = NoPlayer
    /\ stats' = NoStats
    /\ tnow' = 0
    /\ state_live' = FALSE
    /\ message' = NoMessage

\* The pass leaves check_players through an exception: no save_state.
Abort ==
    /\ pc' = "idle"
    /\ ResetLocals
    /\ UNCHANGED <<state_file, saves>>

\* LoopNext reading the element it has just handled again.
LoopNextSameElement(i, ps) ==
    IF 1 <= i /\ i <= Len(players)
    THEN /\ pc' = "fetch"
         /\ it' = i
         /\ player' = players[i]
         /\ stats' = NoStats
         /\ tnow' = 0
         /\ state_live' = FALSE
         /\ message' = NoMessage
         /\ UNCHANGED <<state_file, saves>>
    ELSE /\ pc' = "idle"
         /\ ResetLocals
         /\ state_file' = ps
         /\ saves' = saves + 1

\* Lines 153-154 and 203: take the next roster element and suspend at its
\* fetch, or leave the loop and write the store `ps` to state.json.
LoopNext(i, ps) ==
    IF i < Len(players)
    THEN /\ pc' = "fetch"
         /\ it' = i + 1
         /\ player' = players[i + 1]
         /\ stats' = NoStats
         /\ tnow' = 0
         /\ state_live' = FALSE
         /\ message' = NoMessage
         /\ UNCHANGED <<state_file, saves>>
    ELSE /\ pc' = "idle"
         /\ ResetLocals
         /\ state_file' = ps
         /\ saves' = saves + 1

\* ---- the state machine of lines 161-199 ----

\* FirstSeen recording the play-time only.
FirstSeenNoKills(st, t) ==
    [seconds_played |-> st.secondsPlayed, kills |-> None, last_check |-> t,
     playing |-> FALSE]

\* FirstSeen with the flag of the update branch (line 190) copied in.
FirstSeenAsPlaying(st, t) ==
    [seconds_played |-> st.secondsPlayed, kills |-> st.kills, last_check |-> t,
     playing |-> TRUE]

\* Lines 163-166.
FirstSeen(st, t) ==
    [seconds_played |-> st.secondsPlayed, kills |-> st.kills, last_check |-> t,
     playing |-> FALSE]

\* Line 171.
PlaytimeDiffers(rec, st) == st.secondsPlayed # rec.seconds_played

\* Line 173.
SessionKills(rec, st) == Max(st.kills - rec.kills, 0)

\* PickMessage with `>= 0` for `> 0` at line 174.
PickMessageNonNegative(p, session_kills) ==
    IF session_kills >= 0
    THEN [kind |-> "rampage", player |-> p, kills |-> session_kills]
    ELSE [kind |-> "zero_kill", player |-> p, kills |-> None]

\* Lines 174-182: the rampage templates format the kill count in, the
\* zero-kill templates do not.
PickMessage(p, session_kills) ==
    IF session_kills > 0
    THEN [kind |-> "rampage", player |-> p, kills |-> session_kills]
    ELSE [kind |-> "zero_kill", player |-> p, kills |-> None]

\* Rebaseline without line 188: the kill checkpoint is not moved.
RebaselineKeepsKills(rec, st, t) ==
    [seconds_played |-> st.secondsPlayed, kills |-> rec.kills, last_check |-> t,
     playing |-> TRUE]

\* Lines 187-190.
Rebaseline(rec, st, t) ==
    [seconds_played |-> st.secondsPlayed, kills |-> st.kills, last_check |-> t,
     playing |-> TRUE]

\* Inactive with `>` for `>=` at line 193.
InactiveStrict(rec, t) == rec.playing /\ (t - rec.last_check) > INACTIVITY_THRESHOLD

\* Line 193.
Inactive(rec, t) == rec.playing /\ (t - rec.last_check) >= INACTIVITY_THRESHOLD

\* StopPlaying forgetting the checkpoint as well.
StopPlayingForgets(rec) ==
    [rec EXCEPT !.playing = FALSE, !.seconds_played = None, !.kills = None]

\* Line 199.
StopPlaying(rec) == [rec EXCEPT !.playing = FALSE]

\* ---- check_players ----

\* SkipPass with the save_state of line 203 reached before the return.
SkipPassSaving ==
    /\ pc' = "idle"
    /\ state_file' = player_state
    /\ UNCHANGED <<players, config_file, player_state, now, running, it,
                   player, stats, tnow, state_live, message>>

\* Lines 147-149: channel not in the cache, the pass returns at once.
SkipPass ==
    /\ pc' = "idle"
    /\ UNCHANGED <<players, config_file, player_state, state_file, now, running, it,
                   player, stats, tnow, state_live, message>>

\* PollStart whenever the loop is alive, without waiting for the pass under
\* way to finish nor for the interval to elapse.
PollStartAnytime(found) ==
    /\ UNCHANGED checks
    /\ running
    /\ next_run' = now + CHECK_INTERVAL
    /\ sent' = [u \in Users |-> 0]
    /\ IF found
       THEN /\ saves' = IF Len(players) = 0 THEN 1 ELSE 0
            /\ IF Len(players) > 0
               THEN /\ pc' = "fetch"
                    /\ it' = 1
                    /\ player' = players[1]
                    /\ UNCHANGED state_file
               ELSE /\ pc' = "idle"
                    /\ state_file' = player_state
                    /\ UNCHANGED <<it, player>>
            /\ last' = Did("start", NoStats, NoPlayer)
            /\ UNCHANGED <<players, config_file, player_state, now, running, stats,
                           tnow, state_live, message>>
       ELSE /\ SkipPass
            /\ saves' = 0
            /\ last' = Did("skip", NoStats, NoPlayer)

\* Lines 146-154 (and 203 when the roster is empty).
PollStart(found) ==
    /\ UNCHANGED checks
    /\ pc = "idle"
    /\ running
    /\ now >= next_run
    /\ next_run' = now + CHECK_INTERVAL
    /\ sent' = [u \in Users |-> 0]
    /\ IF found
       THEN /\ saves' = IF Len(players) = 0 THEN 1 ELSE 0
            /\ IF Len(players) > 0
               THEN /\ pc' = "fetch"
                    /\ it' = 1
                    /\ player' = players[1]
                    /\ UNCHANGED state_file
               ELSE /\ pc' = "idle"
                    /\ state_file' = player_state
                    /\ UNCHANGED <<it, player>>
            /\ last' = Did("start", NoStats, NoPlayer)
            /\ UNCHANGED <<players, config_file, player_state, now, running, stats,
                           tnow, state_live, message>>
       ELSE /\ SkipPass
            /\ saves' = 0
            /\ last' = Did("skip", NoStats, NoPlayer)

\* Lines 119-140 returning None, then lines 155-156.
FetchNone(why) ==
    /\ UNCHANGED checks
    /\ pc = "fetch"
    /\ LoopNext(it, player_state)
    /\ last' = Did(why, NoStats, player)
    /\ UNCHANGED <<players, config_file, player_state, now, running, sent, next_run>>

\* Line 122: session.get raises on timeout; fetch_raw_stats, fetch_stats and
\* check_players let it through, and tasks.loop retries the pass later.
FetchTimeout ==
    /\ UNCHANGED checks
    /\ pc = "fetch"
    /\ Abort
    /\ last' = Did("timeout", NoStats, player)
    /\ UNCHANGED <<players, config_file, player_state, now, running, sent, next_run>>

\* Line 158 when the record was popped during the fetch: KeyError leaves
\* check_players and ends the tasks.loop task.
FetchKeyError ==
    /\ UNCHANGED checks
    /\ pc = "fetch"
    /\ player \notin DOMAIN player_state
    /\ Abort
    /\ running' = FALSE
    /\ last' = Did("key_error", NoStats, player)
    /\ UNCHANGED <<players, config_file, player_state, now, sent, next_run>>

\* Lines 158-168.
FirstObservation(st) ==
    /\ UNCHANGED checks
    /\ pc = "fetch"
    /\ player \in DOMAIN player_state
    /\ player_state[player].seconds_played = None
    /\ player_state' = [player_state EXCEPT ![player] = FirstSeen(st, now)]
    /\ LoopNext(it, player_state')
    /\ last' = Did("first_seen", st, player)
    /\ UNCHANGED <<players, config_file, now, running, sent, next_run>>

\* Lines 158-184: the message is built and the pass suspends in channel.send.
PlaytimeChanged(st) ==
    /\ UNCHANGED checks
    /\ pc = "fetch"
    /\ player \in DOMAIN player_state
    /\ player_state[player].seconds_played # None
    /\ PlaytimeDiffers(player_state[player], st)
    /\ message' = PickMessage(player, SessionKills(player_state[player], st))
    /\ pc' = "send"
    /\ stats' = st
    /\ tnow' = now
    /\ state_live' = TRUE
    /\ last' = Did("changed", st, player)
    /\ UNCHANGED <<players, config_file, player_state, state_file, now, running, it,
                   player, sent, saves, next_run>>

\* Lines 186-190 after channel.send returned; `state` may have been popped
\* from the store meanwhile, then the update hits a dict nobody holds.
SendDone ==
    /\ UNCHANGED checks
    /\ pc = "send"
    /\ sent' = [sent EXCEPT ![player] = @ + 1]
    /\ player_state' =
          IF state_live
          THEN [player_state EXCEPT ![player] = Rebaseline(@, stats, tnow)]
          ELSE player_state
    /\ LoopNext(it, player_state')
    /\ last' = Did("sent", stats, player)
    /\ UNCHANGED <<players, config_file, now, running, next_run>>

\* Lines 193-199 (the send of line 201 is commented out).
InactivityStop(st) ==
    /\ UNCHANGED checks
    /\ pc = "fetch"
    /\ player \in DOMAIN player_state
    /\ player_state[player].seconds_played # None
    /\ ~PlaytimeDiffers(player_state[player], st)
    /\ Inactive(player_state[player], now)
    /\ player_state' = [player_state EXCEPT ![player] = StopPlaying(@)]
    /\ LoopNext(it, player_state')
    /\ last' = Did("stopped", st, player)
    /\ UNCHANGED <<players, config_file, now, running, sent, next_run>>

\* Neither branch of lines 171/193 taken.
NoChange(st) ==
    /\ UNCHANGED checks
    /\ pc = "fetch"
    /\ player \in DOMAIN player_state
    /\ player_state[player].seconds_played # None
    /\ ~PlaytimeDiffers(player_state[player], st)
    /\ ~Inactive(player_state[player], now)
    /\ LoopNext(it, player_state)
    /\ last' = Did("no_change", st, player)
    /\ UNCHANGED <<players, config_file, player_state, now, running, sent, next_run>>

\* ---- commands ----

poll_vars == <<pc, it, player, stats, tnow, message, sent, saves, next_run>>

\* Lines 236-238.
AddPlayerPresent(username) ==
    /\ UNCHANGED checks
    /\ pc # "dead"
    /\ username \in Range(players)
    /\ last' = Did("already_monitored", NoStats, username)
    /\ UNCHANGED <<players, config_file, player_state, state_file, now, running,
                   poll_vars, state_live>>

\* AddPlayer with list.insert(0, username) for the append of line 240.
AddPlayerAtFront(username) ==
    /\ UNCHANGED checks
    /\ pc # "dead"
    /\ username \notin Range(players)
    /\ players' = <<username>> \o players
    /\ config_file' = players'
    /\ player_state' = DictSet(player_state, username, NullRecord)
    /\ state_file' = player_state'
    /\ state_live' = (state_live /\ username # player)
    /\ last' = Did("now_monitoring", NoStats, username)
    /\ UNCHANGED <<now, running, poll_vars>>

\* AddPlayer without the record of lines 243-248.
AddPlayerNoRecord(username) ==
    /\ UNCHANGED checks
    /\ pc # "dead"
    /\ username \notin Range(players)
    /\ players' = Append(players, username)
    /\ config_file' = players'
    /\ state_file' = player_state
    /\ last' = Did("now_monitoring", NoStats, username)
    /\ UNCHANGED <<player_state, state_live, now, running, poll_vars>>

\* AddPlayer without the save_state of line 249.
AddPlayerNoStateSave(username) ==
    /\ UNCHANGED checks
    /\ pc # "dead"
    /\ username \notin Range(players)
    /\ players' = Append(players, username)
    /\ config_file' = players'
    /\ player_state' = DictSet(player_state, username, NullRecord)
    /\ state_live' = (state_live /\ username # player)
    /\ last' = Did("now_monitoring", NoStats, username)
    /\ UNCHANGED <<state_file, now, running, poll_vars>>

\* Lines 240-251.
AddPlayer(username) ==
    /\ UNCHANGED checks
    /\ pc # "dead"
    /\ username \notin Range(players)
    /\ players' = Append(players, username)
    /\ config_file' = players'
    /\ player_state' = DictSet(player_state, username, NullRecord)
    /\ state_file' = player_state'
    /\ state_live' = (state_live /\ username # player)
    /\ last' = Did("now_monitoring", NoStats, username)
    /\ UNCHANGED <<now, running, poll_vars>>

\* Lines 258-260.
RemovePlayerAbsent(username) ==
    /\ UNCHANGED checks
    /\ pc # "dead"
    /\ username \notin Range(players)
    /\ last' = Did("not_monitored", NoStats, username)
    /\ UNCHANGED <<players, config_file, player_state, state_file, now, running,
                   poll_vars, state_live>>

\* RemovePlayer without the pop of line 265.
RemovePlayerKeepsRecord(username) ==
    /\ UNCHANGED checks
    /\ pc # "dead"
    /\ username \in Range(players)
    /\ players' = ListRemove(players, username)
    /\ config_file' = players'
    /\ player_state' = player_state
    /\ state_file' = player_state'
    /\ last' = Did("stopped_monitoring", NoStats, username)
    /\ UNCHANGED <<now, running, poll_vars, state_live>>

\* Lines 262-268.
RemovePlayer(username) ==
    /\ UNCHANGED checks
    /\ pc # "dead"
    /\ username \in Range(players)
    /\ players' = ListRemove(players, username)
    /\ config_file' = players'
    /\ player_state' = DictPop(player_state, username)
    /\ state_file' = player_state'
    /\ state_live' = (state_live /\ username # player)
    /\ last' = Did("stopped_monitoring", NoStats, username)
    /\ UNCHANGED <<now, running, poll_vars>>

Next ==
    \/ Tick
    \/ \E found \in BOOLEAN : PollStart(found)
    \/ \E why \in FetchFailures : FetchNone(why)
    \/ FetchTimeout
    \/ FetchKeyError
    \/ \E st \in Snapshots : FirstObservation(st)
    \/ \E st \in Snapshots : PlaytimeChanged(st)
    \/ SendDone
    \/ \E st \in Snapshots : InactivityStop(st)
    \/ \E st \in Snapshots : NoChange(st)
    \/ \E username \in Users : AddPlayerPresent(username)
    \/ \E username \in Users : AddPlayer(username)
    \/ \E username \in Users : RemovePlayerAbsent(username)
    \/ \E username \in Users : RemovePlayer(username)

Spec == Init /\ [][Next]_vars

\* ---- the poll loop left to itself ----

\* check_players with no command arriving, the channel resolved and every
\* fetch returning a snapshot.
NextLive ==
    \/ Tick
    \/ PollStart(TRUE)
    \/ \E st \in Snapshots : FirstObservation(st)
    \/ \E st \in Snapshots : PlaytimeChanged(st)
    \/ SendDone
    \/ \E st \in Snapshots : InactivityStop(st)
    \/ \E st \in Snapshots : NoChange(st)

\* The request of line 154 is answered.
FetchReturns ==
    \E st \in Snapshots :
        \/ FirstObservation(st)
        \/ PlaytimeChanged(st)
        \/ InactivityStop(st)
        \/ NoChange(st)

\* The clock advances, tasks.loop starts a pass when one is due (line 142),
\* and the awaits of lines 154 and 184 return.
Fairness ==
    /\ WF_vars(Tick)
    /\ WF_vars(PollStart(TRUE))
    /\ WF_vars(FetchReturns)
    /\ WF_vars(SendDone)

SpecLive == Init /\ [][NextLive]_vars /\ Fairness

\* ---- process stop and restart ----

\* state.json after a stop inside save_state: open(STATE_FILE, "w") of line
\* 102 has emptied the file and json.dump of line 103 has not finished, so
\* the file holds no JSON document.
TornFile == [x \in {"<torn>"} |-> NullRecord]

\* No process, hence no store.
NoStore == [x \in {} |-> NullRecord]

\* Module load (lines 46-115) and on_ready (line 299) on the files the
\* stopped process left: roster `cfg` in config.json, store `file` in
\* state.json.  The process is down for one clock unit.
Startup(cfg, file) ==
    /\ pc # "dead"
    /\ config_file' = cfg
    /\ players' = cfg
    /\ player_state' = SetDefaults(file, cfg)
    /\ state_file' = player_state'
    /\ running' = TRUE
    /\ pc' = "idle"
    /\ ResetLocals
    /\ sent' = [u \in Users |-> 0]
    /\ saves' = 0
    /\ now < MaxTime
    /\ now' = now + 1
    /\ next_run' = now'
    /\ checks' = 0

\* The process stops between two handlers, or while check_players or a
\* command is suspended, and is started again.
Restart ==
    /\ Startup(config_file, state_file)
    /\ last' = Did("restart", NoStats, NoPlayer)

\* The process stops in add_player between save_config (line 241) and
\* save_state (line 249), and is started again.
RestartInAddPlayer(username) ==
    /\ username \notin Range(players)
    /\ Startup(Append(players, username), state_file)
    /\ last' = Did("restart", NoStats, username)

\* The process stops in remove_player between save_config (line 263) and
\* save_state (line 266), and is started again.
RestartInRemovePlayer(username) ==
    /\ username \in Range(players)
    /\ Startup(ListRemove(players, username), state_file)
    /\ last' = Did("restart", NoStats, username)

\* Module load on a state.json that holds no JSON document: json.load of
\* line 99 raises, the module never reaches bot.run and the process exits
\* (pc = "dead"); every later start fails in the same way.
StartupFails(cfg) ==
    /\ pc # "dead"
    /\ config_file' = cfg
    /\ state_file' = TornFile
    /\ players' = <<>>
    /\ player_state' = NoStore
    /\ running' = FALSE
    /\ pc' = "dead"
    /\ ResetLocals
    /\ sent' = [u \in Users |-> 0]
    /\ saves' = 0
    /\ now < MaxTime
    /\ now' = now + 1
    /\ next_run' = now'
    /\ checks' = 0

\* The process stops in add_player inside save_state (line 249), and is
\* started again.
RestartInSaveState(username) ==
    /\ username \notin Range(players)
    /\ StartupFails(Append(players, username))
    /\ last' = Did("restart", NoStats, username)

\* ---- check_player ----

tracking_vars == <<players, config_file, player_state, state_file>>

pass_vars == <<now, running, pc, it, player, stats, tnow, state_live, message, sent,
               saves, next_run>>

\* Lines 270-275: the handler opens its own session and suspends in
\* fetch_raw_stats, whatever check_players is doing.
CheckPlayerStart(username) ==
    /\ checks < MaxChecks
    /\ checks' = checks + 1
    /\ last' = Did("check_start", NoStats, username)
    /\ UNCHANGED <<tracking_vars, pass_vars>>

\* What fetch_raw_stats can do for check_player (lines 122-126): a payload,
\* a status other than 200, an empty body, or the timeout of line 122.
CheckOutcomes == {"ok", "http_status", "empty", "timeout"}

\* The reply of check_player: the failure text of lines 277-279 when the
\* data is None or empty, the payload of lines 281-285 otherwise; a timeout
\* leaves the handler and on_command_error (lines 289-292) replies.
CheckReply(outcome) ==
    IF outcome = "timeout" THEN "command_error"
    ELSE IF outcome \in {"http_status", "empty"} THEN "could_not_fetch"
    ELSE "payload"

\* CheckPlayerDone ending with a save_state, as the other commands do.
CheckPlayerDoneSaving(outcome) ==
    /\ checks > 0
    /\ checks' = checks - 1
    /\ state_file' = player_state
    /\ last' = [op |-> "check_done", stats |-> NoStats, user |-> NoPlayer,
                outcome |-> outcome, reply |-> CheckReply(outcome)]
    /\ UNCHANGED <<players, config_file, player_state, pass_vars>>

\* Lines 275-285: the fetch returns and the handler replies.
CheckPlayerDone(outcome) ==
    /\ checks > 0
    /\ checks' = checks - 1
    /\ last' = [op |-> "check_done", stats |-> NoStats, user |-> NoPlayer,
                outcome |-> outcome, reply |-> CheckReply(outcome)]
    /\ UNCHANGED <<tracking_vars, pass_vars>>

\* The poll loop and check_player on a roster that no command changes (so
\* the lookup of line 158 cannot fail).
NextCheck ==
    \/ Tick
    \/ \E found \in BOOLEAN : PollStart(found)
    \/ \E why \in FetchFailures : FetchNone(why)
    \/ FetchTimeout
    \/ \E st \in Snapshots : FirstObservation(st)
    \/ \E st \in Snapshots : PlaytimeChanged(st)
    \/ SendDone
    \/ \E st \in Snapshots : InactivityStop(st)
    \/ \E st \in Snapshots : NoChange(st)
    \/ \E username \in Users : CheckPlayerStart(username)
    \/ \E outcome \in CheckOutcomes : CheckPlayerDone(outcome)

SpecCheck == Init /\ [][NextCheck]_vars

NextCrash ==
    \/ Next
    \/ Restart
    \/ \E username \in Users : RestartInAddPlayer(username)
    \/ \E username \in Users : RestartInRemovePlayer(username)
    \/ \E username \in Users : RestartInSaveState(username)

SpecCrash == Init /\ [][NextCrash]_vars

\* ---- properties ----

NoneSent == [u \in Users |-> 0]

\* The step is the return of the fetch of line 154 with snapshot st.
Fetched(st) == pc = "fetch" /\ last'.stats = st

\* The record the pass is about to look up (line 158) exists.
HasRecord == player \in DOMAIN player_state

\* The step hands a message about the current player to channel.send.
Emits(kinds) ==
    /\ pc' = "send"
    /\ message'.player = player
    /\ message'.kind \in kinds

\* No message is handed to channel.send and none is delivered by the step.
Silent == pc' # "send" /\ message' = NoMessage /\ sent' = sent

\* C1: First observation never notifies.  Whenever a fetch returns a snapshot
\* for a player whose record has seconds_played = None, the step sets
\* seconds_played and kills to the snapshot's values, last_check to the
\* current time and playing to FALSE, and no notification is sent, for
\* every snapshot.
C1_FirstObservationSilent ==
    [][\A st \in Snapshots :
        (Fetched(st) /\ HasRecord /\ player_state[player].seconds_played = None)
        => /\ player_state'[player] =
                [seconds_played |-> st.secondsPlayed, kills |-> st.kills,
                 last_check |-> now, playing |-> FALSE]
           /\ Silent]_vars

\* A first observation of a snapshot with play time and kills has just been
\* recorded, without any message in this pass.
C1_Witness ==
    /\ last.op = "first_seen"
    /\ last.stats = [secondsPlayed |-> 1, kills |-> 1]
    /\ last.user \in DOMAIN player_state
    /\ player_state[last.user] =
          [seconds_played |-> 1, kills |-> 1, last_check |-> now, playing |-> FALSE]
    /\ sent = NoneSent

\* The case of line 193 on snapshot st: the record is active, the snapshot's
\* play time equals the recorded one and the threshold has elapsed.
StopCase(st) ==
    /\ Fetched(st)
    /\ HasRecord
    /\ player_state[player].playing
    /\ st.secondsPlayed = player_state[player].seconds_played
    /\ now - player_state[player].last_check >= INACTIVITY_THRESHOLD

\* C2 as stated: a session stop sets playing to FALSE and emits a
\* 'session ended' notification for the player.
C2_StopNotifies ==
    [][\A st \in Snapshots :
        StopCase(st)
        => /\ ~player_state'[player].playing
           /\ Emits({"session_ended"})]_vars

\* C2 amended: a session stop sets playing to FALSE, leaves seconds_played,
\* kills and last_check as they were, and sends no notification.
C2_StopSilent ==
    [][\A st \in Snapshots :
        StopCase(st)
        => /\ player_state'[player] = [player_state[player] EXCEPT !.playing = FALSE]
           /\ Silent]_vars

\* An active record has just been switched to idle by an unchanged snapshot
\* taken a threshold after its last check.
C2_Witness ==
    /\ last.op = "stopped"
    /\ last.user \in DOMAIN player_state
    /\ ~player_state[last.user].playing
    /\ player_state[last.user].seconds_played = last.stats.secondsPlayed
    /\ now - player_state[last.user].last_check >= INACTIVITY_THRESHOLD

\* The case of line 171 on snapshot st: an observed record whose play time
\* differs from the snapshot's.
ChangedCase(st) ==
    /\ Fetched(st)
    /\ HasRecord
    /\ player_state[player].seconds_played # None
    /\ st.secondsPlayed # player_state[player].seconds_played

\* C3: Changed play time always re-baselines and notifies.  For an observed
\* player, whether playing was TRUE or FALSE, a fetch that returns a snapshot
\* with a different secondsPlayed hands one message about the player to the
\* channel; when the send returns the message counts as delivered and the
\* record the pass looked up has seconds_played and kills equal to the
\* snapshot, last_check equal to the time read at line 159 and playing TRUE
\* (the record in the store, unless remove_player popped it during the send).
C3_ChangedRebaselines ==
    [][/\ \A st \in Snapshots :
            ChangedCase(st)
            => /\ Emits({"rampage", "zero_kill"})
               /\ stats' = st
               /\ tnow' = now
               /\ player_state' = player_state
       /\ (pc = "send" /\ last'.op = "sent")
            => /\ sent' = [sent EXCEPT ![player] = @ + 1]
               /\ state_live
                    => /\ player \in DOMAIN player_state'
                       /\ player_state'[player] =
                            [seconds_played |-> stats.secondsPlayed,
                             kills |-> stats.kills,
                             last_check |-> tnow, playing |-> TRUE]]_vars

\* A notification has just been delivered and the player's record, which
\* held play time 0, now holds the snapshot with play time 1.
C3_Witness ==
    /\ last.op = "sent"
    /\ last.stats = [secondsPlayed |-> 1, kills |-> 0]
    /\ last.user \in DOMAIN player_state
    /\ player_state[last.user] =
          [seconds_played |-> 1, kills |-> 0, last_check |-> now, playing |-> TRUE]
    /\ sent[last.user] = 1

\* C4: The kill delta is clamped and selects the notification kind.  In the
\* changed-play-time case the delta is snapshot kills minus recorded kills,
\* or 0 when that is negative; the message is a rampage message carrying the
\* delta exactly when the delta is positive and a zero-kill message exactly
\* when it is 0, and that message is the one delivered.
C4_KillDeltaSelectsKind ==
    [][/\ \A st \in Snapshots :
            ChangedCase(st)
            => LET recorded == player_state[player].kills
                   delta == IF st.kills < recorded THEN 0 ELSE st.kills - recorded
               IN  /\ delta > 0 =>
                         message' = [kind |-> "rampage", player |-> player, kills |-> delta]
                   /\ delta = 0 =>
                         message' = [kind |-> "zero_kill", player |-> player, kills |-> None]
       /\ (pc = "send" /\ pc' = "send") => message' = message]_vars

\* A zero-kill message is in flight for a snapshot whose kill counter went
\* backwards.
C4_Witness ==
    /\ pc = "send"
    /\ message.kind = "zero_kill"
    /\ player \in DOMAIN player_state
    /\ stats.kills < player_state[player].kills

\* The step is the fetch of line 154 failing for the current player:
\* fetch_stats returned None or session.get timed out.
FetchFailed == pc = "fetch" /\ last'.op \in FetchFailures \cup {"timeout"}

\* C5: Partial-failure isolation.  When the fetch for a player fails (bad
\* status, empty or malformed body, or timeout), no record changes, nothing is
\* sent, and the pass goes on with the next roster player, or ends with the
\* save of line 203 when the player was the last one.
C5_FailureIsolated ==
    [][FetchFailed
        => /\ player_state' = player_state
           /\ sent' = sent
           /\ IF it < Len(players)
              THEN pc' = "fetch" /\ it' = it + 1 /\ player' = players[it + 1]
              ELSE pc' = "idle" /\ state_file' = player_state /\ saves' = saves + 1]_vars

\* The steps of check_players after the channel was resolved.
PassOps ==
    {"start", "timeout", "key_error", "first_seen", "changed", "sent", "stopped",
     "no_change"} \cup FetchFailures

\* The step ends a pass that had resolved its channel.
PassEnds == pc' = "idle" /\ (pc # "idle" \/ last'.op = "start")

\* C6: Every pass that resolved the output channel ends by writing the whole
\* store to state.json, exactly once, after the last roster player; until
\* then the pass does not write the file.
C6_PassEndsWithOneSave ==
    [][/\ PassEnds => (state_file' = player_state' /\ saves' = 1)
       /\ (last'.op \in PassOps /\ pc' # "idle")
            => (state_file' = state_file /\ saves' = 0)]_vars

\* C7: Channel unavailable skips the pass.  A pass that does not find the
\* channel fetches nothing, sends nothing, changes no record and no roster
\* and writes neither file; the loop stays alive and idle, so a later pass
\* can run.
C7_SkipChangesNothing ==
    [][last'.op = "skip"
        => /\ pc = "idle" /\ pc' = "idle"
           /\ running'
           /\ UNCHANGED <<players, config_file, player_state, state_file>>
           /\ sent' = NoneSent
           /\ saves' = 0]_vars

\* A pass has just been skipped while the store holds changes that are not
\* in state.json.
C7_Witness ==
    /\ last.op = "skip"
    /\ state_file # player_state
    /\ players # <<>>

\* C8: At most one notification per player per poll pass.
C8_AtMostOneNotification == \A u \in Users : sent[u] <= 1

\* A pass has delivered a notification for every user.
C8_Witness == \A u \in Users : sent[u] = 1

\* C9: addPlayer.  On a username of the roster the command answers
\* "already monitored" and changes neither roster, store, config.json nor
\* state.json; on any other username it appends the username at the end of
\* the roster, gives it a record with seconds_played = None, kills = None and
\* playing = FALSE, leaves the other records alone, and writes the roster to
\* config.json and the store to state.json.
C9_AddPlayer ==
    [][/\ last'.op \in {"already_monitored", "now_monitoring"}
            => (last'.op = "already_monitored" <=> last'.user \in Range(players))
       /\ last'.op = "already_monitored"
            => UNCHANGED <<players, config_file, player_state, state_file>>
       /\ last'.op = "now_monitoring"
            => /\ players' = Append(players, last'.user)
               /\ DOMAIN player_state' = DOMAIN player_state \cup {last'.user}
               /\ player_state'[last'.user] =
                     [seconds_played |-> None, kills |-> None, last_check |-> 0,
                      playing |-> FALSE]
               /\ \A v \in DOMAIN player_state \ {last'.user} :
                     player_state'[v] = player_state[v]
               /\ config_file' = players'
               /\ state_file' = player_state']_vars

\* addPlayer has just been refused for a player whose record holds a
\* checkpoint, while state.json is behind the store.
C9_Witness ==
    /\ last.op = "already_monitored"
    /\ last.user \in DOMAIN player_state
    /\ player_state[last.user].seconds_played # None
    /\ state_file # player_state

\* C10: removePlayer.  A successful removePlayer(u) leaves u absent from the
\* roster, the store, config.json and state.json; on a username that is not
\* on the roster the command answers "not monitored" and changes none of
\* them.  Only addPlayer puts a username back into the store, with an
\* all-null record; an all-null record stays all-null until a fetch for
\* that player succeeds, and that step sends nothing.
C10_RemovePlayer ==
    [][/\ last'.op \in {"not_monitored", "stopped_monitoring"}
            => (last'.op = "not_monitored" <=> last'.user \notin Range(players))
       /\ last'.op = "not_monitored"
            => UNCHANGED <<players, config_file, player_state, state_file>>
       /\ last'.op = "stopped_monitoring"
            => /\ last'.user \notin Range(players')
               /\ last'.user \notin DOMAIN player_state'
               /\ last'.user \notin Range(config_file')
               /\ last'.user \notin DOMAIN state_file'
       /\ \A u \in Users :
            (u \notin DOMAIN player_state /\ u \in DOMAIN player_state')
            => /\ last'.op = "now_monitoring" /\ last'.user = u
               /\ player_state'[u] = NullRecord
       /\ \A u \in DOMAIN player_state \cap DOMAIN player_state' :
            (player_state[u] = NullRecord /\ player_state'[u] # NullRecord)
            => last'.op = "first_seen" /\ last'.user = u
       /\ \A st \in Snapshots :
            (Fetched(st) /\ HasRecord /\ player_state[player] = NullRecord) => Silent]_vars

\* A player has just been removed while the notification about them was in
\* flight; their record is gone from the store.
C10_Witness ==
    /\ last.op = "stopped_monitoring"
    /\ pc = "send"
    /\ player = last.user
    /\ ~state_live
    /\ last.user \notin DOMAIN player_state
    /\ last.user \notin DOMAIN state_file

\* C11: in every reachable state, restarts included, every record of the
\* store has seconds_played and kills both None or both set, and a record
\* with playing = TRUE has seconds_played set.
C11_RecordShape ==
    \A u \in DOMAIN player_state :
        /\ (player_state[u].seconds_played = None) <=> (player_state[u].kills = None)
        /\ player_state[u].playing => player_state[u].seconds_played # None

\* After a restart the store holds a record in a session next to a record
\* that was never observed.
C11_Witness ==
    /\ last.op = "restart"
    /\ \E u, v \in DOMAIN player_state :
        /\ player_state[u].playing
        /\ player_state[u].seconds_played # None
        /\ player_state[u].kills # None
        /\ player_state[v] = NullRecord

\* C12: a stop at any point followed by a start leaves the store equal to
\* the last completed write of state.json, extended with a null record for
\* every player of the persisted roster that has none in it, and the
\* in-memory roster equal to the persisted one.
C12_RestartRecoversLastFlush ==
    [][last'.op = "restart"
        => /\ players' = config_file'
           /\ Range(config_file') \subseteq DOMAIN player_state'
           /\ player_state'
                = [u \in DOMAIN state_file \cup Range(config_file') |->
                     IF u \in DOMAIN state_file THEN state_file[u] ELSE NullRecord]]_vars

\* The same, for stops outside save_state.
RestartOutsideSaveRecovers ==
    [][(last'.op = "restart" /\ pc' # "dead")
        => /\ players' = config_file'
           /\ Range(config_file') \subseteq DOMAIN player_state'
           /\ player_state'
                = [u \in DOMAIN state_file \cup Range(config_file') |->
                     IF u \in DOMAIN state_file THEN state_file[u] ELSE NullRecord]]_vars

\* C13: check_player, for every username and every outcome of its fetch,
\* leaves the roster, every record, config.json and state.json unchanged,
\* also while check_players is suspended; a fetch that failed is answered
\* with a failure message.
C13_CheckPlayerReadOnly ==
    [][/\ last'.op \in {"check_start", "check_done"}
            => UNCHANGED <<players, player_state, config_file, state_file,
                           pc, it, player, stats, state_live, message, running>>
       /\ (last'.op = "check_done" /\ last'.outcome # "ok")
            => last'.reply \in {"could_not_fetch", "command_error"}
       /\ (last'.op = "check_done" /\ last'.outcome = "ok")
            => last'.reply = "payload"]_vars

\* A check_player fetch has just failed while check_players waits for the
\* second player of its pass, the first one's update not yet saved.
C13_Witness ==
    /\ last.op = "check_done"
    /\ last.outcome = "http_status"
    /\ pc = "fetch"
    /\ it = 2
    /\ player_state # state_file

\* Duplicate-free rosters of up to three names, to exercise list.remove in
\* the middle of a list.
WideUsers == {"u1", "u2", "u3"}

WideRosters == {s \in UNION {[1..n -> WideUsers] : n \in 0..3} : NoDups(s)}

\* C14: the roster never holds a name twice; a step leaves it alone,
\* appends a name that was absent at its end, or takes one name out and
\* keeps the others in their order, whatever check_players is doing.
C14_RosterOrdered ==
    /\ NoDups(players)
    /\ \A s \in WideRosters, x \in WideUsers :
          ListRemove(s, x) = SelectSeq(s, LAMBDA y : y # x)
    /\ [][/\ NoDups(players')
          /\ \/ players' = players
             \/ /\ last'.op = "now_monitoring"
                /\ last'.user \notin Range(players)
                /\ players' = Append(players, last'.user)
             \/ /\ last'.op = "stopped_monitoring"
                /\ last'.user \in Range(players)
                /\ players' = ListRemove(players, last'.user)]_vars

\* A name has been added behind another one while check_players was
\* suspended in the middle of its pass.
C14_Witness ==
    /\ last.op = "now_monitoring"
    /\ Len(players) = 2
    /\ players[2] = last.user
    /\ pc \in {"fetch", "send"}

\* The players check_players has still to visit in the pass under way.
Pending == {players[i] : i \in (it + 1)..Len(players)}

\* C15: a remove_player that runs while check_players is suspended does not
\* change which other players the pass still visits: everyone on the roster
\* at pass start, the removed player apart, is still visited.
C15_RemovalKeepsPassRoster ==
    [][(pc \in {"fetch", "send"} /\ last'.op = "stopped_monitoring")
        => Pending' = Pending \ {last'.user}]_vars

\* C16: whenever check_players resumes after a fetch and looks up the
\* player's record (line 158) the record exists, so no interleaving of
\* commands with the pass makes the pass end in an exception at that lookup
\* or stops the loop that starts the later passes.
C16_LookupNeverFails ==
    /\ last.op # "key_error"
    /\ running

\* Requests to the stats API that are outstanding: the one check_players
\* awaits at line 154 and those of suspended check_player handlers.
FetchesInFlight == (IF pc = "fetch" THEN 1 ELSE 0) + checks

\* C17: at most one request to the stats API is outstanding at any moment,
\* whether issued by check_players or by a check_player command.
C17_OneFetchInFlight == FetchesInFlight <= 1

\* C17, amended: check_players has at most one request outstanding: a pass
\* starts only when none is under way, and a player's fetch is issued only
\* by the step that finished the previous player of the same pass; requests
\* of check_player commands may be outstanding at the same time.
C17_PollFetchesSequential ==
    [][/\ last'.op \in {"start", "skip"} => pc = "idle"
       /\ (pc' = "fetch" /\ last'.op \notin {"check_start", "check_done"})
            => \/ last'.op = "start" /\ it' = 1
               \/ pc \in {"fetch", "send"} /\ it' = it + 1
               \/ UNCHANGED <<pc, it, player>>]_vars

\* check_players and a check_player command both wait for the stats API.
C17_Witness ==
    /\ pc = "fetch"
    /\ it = 2
    /\ checks = 1
    /\ last.op = "check_start"

\* The fetch returns, for a player observed before, a snapshot whose
\* secondsPlayed is the recorded one.
UnchangedCase(st) ==
    /\ Fetched(st)
    /\ HasRecord
    /\ player_state[player].seconds_played # None
    /\ st.secondsPlayed = player_state[player].seconds_played

\* C18: a poll step with unchanged play-time leaves seconds_played, kills
\* and last_check of the record as they were and touches no other record;
\* it changes playing only from TRUE to FALSE and only when now - last_check
\* has reached the threshold; for an idle player or below the threshold it
\* changes nothing; it sends nothing in either case.
C18_UnchangedKeepsCheckpoint ==
    [][\A st \in Snapshots :
        UnchangedCase(st)
        => /\ DOMAIN player_state' = DOMAIN player_state
           /\ \A u \in DOMAIN player_state \ {player} : player_state'[u] = player_state[u]
           /\ player_state'[player].seconds_played = player_state[player].seconds_played
           /\ player_state'[player].kills = player_state[player].kills
           /\ player_state'[player].last_check = player_state[player].last_check
           /\ player_state'[player].playing # player_state[player].playing
                => /\ player_state[player].playing
                   /\ ~player_state'[player].playing
                   /\ now - player_state[player].last_check >= INACTIVITY_THRESHOLD
           /\ (\/ ~player_state[player].playing
               \/ now - player_state[player].last_check < INACTIVITY_THRESHOLD)
                => player_state' = player_state
           /\ Silent
           /\ last'.op \in {"stopped", "no_change"}]_vars

\* An active player below the threshold has just been polled with an
\* unchanged snapshot that differs in kills only.
C18_Witness ==
    /\ last.op = "no_change"
    /\ last.user \in DOMAIN player_state
    /\ player_state[last.user].playing
    /\ player_state[last.user].seconds_played = last.stats.secondsPlayed
    /\ player_state[last.user].kills # last.stats.kills
    /\ now - player_state[last.user].last_check < INACTIVITY_THRESHOLD

\* C19: in every reachable state, at startup, after a restart, between any
\* two steps of check_players and of the commands, every name on the
\* in-memory roster is a key of the in-memory store.
C19_RosterHasRecords == Range(players) \subseteq DOMAIN player_state

\* The process was stopped in add_player before save_state; after the
\* restart the added player is on the roster and the startup loop has given
\* it a record, while state.json of the stopped process had none.
C19_Witness ==
    /\ last.op = "restart"
    /\ pc = "idle"
    /\ last.user \in Range(players)
    /\ Len(players) = 2
    /\ player_state[last.user] = NullRecord

\* The record of u is in a session whose threshold falls within the clock's
\* range.
ActiveSession(u) ==
    /\ u \in DOMAIN player_state
    /\ player_state[u].playing
    /\ player_state[u].last_check + INACTIVITY_THRESHOLD <= MaxTime

\* C20: with the player staying on the roster, every pass running and
\* every fetch answered while the clock advances, a record with playing =
\* TRUE eventually has playing = FALSE unless a poll observes a changed
\* play-time for that player first; and playing goes from FALSE to TRUE
\* only in a poll step that observed a changed play-time.
C20_SessionEventuallyEnds ==
    /\ \A u \in Users :
        ActiveSession(u)
            ~> \/ (u \in DOMAIN player_state /\ ~player_state[u].playing)
               \/ (last.op = "changed" /\ last.user = u)
    /\ [][\A u \in DOMAIN player_state \cap DOMAIN player_state' :
            (~player_state[u].playing /\ player_state'[u].playing)
            => /\ last'.op = "sent"
               /\ last'.user = u
               /\ pc = "send"
               /\ stats.secondsPlayed # player_state[u].seconds_played]_vars

\* A session found at startup has been ended by the pass one threshold
\* later, the play-time being still the recorded one.
C20_Witness ==
    /\ last.op = "stopped"
    /\ now = INACTIVITY_THRESHOLD
    /\ last.user \in DOMAIN player_state
    /\ ~player_state[last.user].playing
    /\ player_state[last.user].last_check = 0

====
